---- MODULE Spec2Model ----
(***************************************************************************)
(* Frame lifecycle of the Direct3D 12 demo programs (main.cpp: triangle,   *)
(* dx12window.cpp: clear only).  The CPU thread is a program counter that  *)
(* walks WinMain -> InitD3D12 -> message pump / Render; the GPU is an      *)
(* asynchronous executor that consumes the command queue in submission     *)
(* order and advances the fence; the host posts window messages.           *)
(***************************************************************************)
EXTENDS Integers, Sequences, FiniteSets, TLC

VARIABLES
    variant,          \* which program runs: "main" or "dx12window"
    pc,               \* position of the CPU thread
    hwnd,             \* window handle returned by CreateWindowEx
    shown,            \* number of ShowWindow/UpdateWindow calls made
    created,          \* GPU objects created so far
    rtv,              \* RTV heap: slot -> render target described (-1 = none)
    g_frameIndex,     \* static UINT g_frameIndex
    g_fenceValue,     \* static UINT64 g_fenceValue
    g_fenceEvent,     \* "null", "open" or "closed"
    listState,        \* g_commandList: "none", "open", "closed", "error"
    recorded,         \* commands recorded into g_commandList since its Reset
    swapIndex,        \* swap chain CurrentBackBufferIndex
    gpuQueue,         \* work submitted to g_commandQueue, not yet executed
    fenceCompleted,   \* g_fence completed value
    fenceRegs,        \* values registered with SetEventOnCompletion
    eventSignaled,    \* state of the auto-reset event
    msgQueue,         \* posted window messages
    quitFlag,         \* PostQuitMessage pending
    msg,              \* MSG msg of WinMain
    posted,           \* number of messages the host has posted
    destroySent,      \* the host has asked to close the window
    \* observation (history) variables
    renderCalls,      \* number of calls to Render
    framesRendered,   \* number of calls to Render that returned
    lastSignaled,     \* last value passed to queue.Signal
    allocFence,       \* value signaled after the allocator's last submission
    frameOps,         \* operations of the current frame, in order
    unmatchedResets,  \* CommandList::Reset calls since the last Close
    pollSaw,          \* completed value seen by the poll of this frame (-1 = none)
    waited,           \* this frame blocked in WaitForSingleObject
    regFor,           \* value this frame registered the event for (-1 = none)
    destroyAt,        \* framesRendered when WM_DESTROY was handled (-1 = never)
    closeCount,       \* number of CloseHandle(g_fenceEvent) calls
    failedCalls,      \* status-returning calls that have reported a failure
    diag              \* outcome of the shader compilation that failed, if any

progVars == <<variant, pc, g_frameIndex, g_fenceValue, g_fenceEvent>>
initVars == <<hwnd, shown, created, rtv>>
listVars == <<listState, recorded, unmatchedResets>>
gpuVars  == <<gpuQueue, fenceCompleted>>
evtVars  == <<fenceRegs, eventSignaled>>
hostVars == <<msgQueue, quitFlag, msg, posted, destroySent>>
histVars == <<renderCalls, framesRendered, lastSignaled, allocFence, frameOps,
              pollSaw, waited, regFor, destroyAt, closeCount>>

vars == <<variant, pc, hwnd, shown, created, rtv, g_frameIndex, g_fenceValue,
          g_fenceEvent, listState, recorded, swapIndex, gpuQueue,
          fenceCompleted, fenceRegs, eventSignaled, msgQueue, quitFlag, msg,
          posted, destroySent, renderCalls, framesRendered, lastSignaled,
          allocFence, frameOps, unmatchedResets, pollSaw, waited,
          regFor, destroyAt, closeCount, failedCalls, diag>>

(***************************************************************************)
(* Bounds of the model.                                                    *)
(***************************************************************************)
MaxFrames == 3        \* calls to Render explored
MaxMsgs == 3          \* window messages the host posts

(***************************************************************************)
(* Program constants.                                                      *)
(***************************************************************************)
BufferCount == 2      \* swapDesc.BufferCount / g_renderTargets[2]

Variants == {"main", "dx12window"}
HRESULT == {"S_OK", "E_FAIL"}
FAILED(hr) == hr # "S_OK"

\* Mutant: the failure is noted but execution continues.
ThrowIfFailed_Swallow(hr, next) ==
    /\ pc' = next
    /\ failedCalls' = IF FAILED(hr) THEN failedCalls \cup {pc} ELSE failedCalls

\* ThrowIfFailed: an uncaught std::runtime_error ends the process.  The
\* call that failed is the one the CPU is at.
ThrowIfFailed(hr, next) ==
    /\ pc' = IF FAILED(hr) THEN "terminated" ELSE next
    /\ failedCalls' = IF FAILED(hr) THEN failedCalls \cup {pc} ELSE failedCalls

\* No shader compilation has failed.
NoDiag == [shader |-> "none", errors |-> FALSE, emitted |-> FALSE]

\* A status-returning creation call wrapped in ThrowIfFailed.
CheckedCreate(from, obj, next) ==
    /\ pc = from
    /\ \E hr \in HRESULT :
          /\ ThrowIfFailed(hr, next)
          /\ created' = IF FAILED(hr) THEN created ELSE created \cup {obj}

Init ==
    /\ variant \in Variants
    /\ pc = "RegisterClass"
    /\ hwnd = "unset"
    /\ shown = 0
    /\ created = {}
    /\ rtv = [i \in 0..(BufferCount - 1) |-> -1]
    /\ g_frameIndex = 0
    /\ g_fenceValue = 0
    /\ g_fenceEvent = "null"
    /\ listState = "none"
    /\ recorded = <<>>
    /\ swapIndex = 0
    /\ gpuQueue = <<>>
    /\ fenceCompleted = 0
    /\ fenceRegs = {}
    /\ eventSignaled = FALSE
    /\ msgQueue = <<>>
    /\ quitFlag = FALSE
    /\ msg = "none"
    /\ posted = 0
    /\ destroySent = FALSE
    /\ renderCalls = 0
    /\ framesRendered = 0
    /\ lastSignaled = 0
    /\ allocFence = 0
    /\ frameOps = <<>>
    /\ unmatchedResets = 0
    /\ pollSaw = -1
    /\ waited = FALSE
    /\ regFor = -1
    /\ destroyAt = -1
    /\ closeCount = 0
    /\ failedCalls = {}
    /\ diag = NoDiag

(***************************************************************************)
(* WinMain up to the call of InitD3D12.  The results of RegisterClass and  *)
(* CreateWindowEx are not examined by the code.                            *)
(***************************************************************************)
CreateWindow ==
    /\ pc = "RegisterClass"
    /\ \E h \in {"valid", "null"} : hwnd' = h
    /\ pc' = "ShowWindow"
    /\ UNCHANGED <<variant, g_frameIndex, g_fenceValue, g_fenceEvent, shown,
                   created, rtv, swapIndex>>
    /\ UNCHANGED <<listVars, gpuVars, evtVars, hostVars, histVars>>
    /\ UNCHANGED <<failedCalls, diag>>

ShowWindowStep ==
    /\ pc = "ShowWindow"
    /\ shown' = shown + 1
    /\ pc' = "CreateDXGIFactory1"
    /\ UNCHANGED <<variant, g_frameIndex, g_fenceValue, g_fenceEvent, hwnd,
                   created, rtv, swapIndex>>
    /\ UNCHANGED <<listVars, gpuVars, evtVars, hostVars, histVars>>
    /\ UNCHANGED <<failedCalls, diag>>

(***************************************************************************)
(* InitD3D12.                                                              *)
(***************************************************************************)
InitRest == <<variant, g_frameIndex, g_fenceValue, g_fenceEvent, hwnd, shown,
              rtv, swapIndex>>

CreateFactory ==
    /\ CheckedCreate("CreateDXGIFactory1", "factory", "D3D12CreateDevice")
    /\ UNCHANGED InitRest
    /\ UNCHANGED <<listVars, gpuVars, evtVars, hostVars, histVars>>
    /\ UNCHANGED diag

CreateDevice ==
    /\ CheckedCreate("D3D12CreateDevice", "device", "CreateCommandQueue")
    /\ UNCHANGED InitRest
    /\ UNCHANGED <<listVars, gpuVars, evtVars, hostVars, histVars>>
    /\ UNCHANGED diag

CreateCommandQueue ==
    /\ CheckedCreate("CreateCommandQueue", "queue", "CreateSwapChainForHwnd")
    /\ UNCHANGED InitRest
    /\ UNCHANGED <<listVars, gpuVars, evtVars, hostVars, histVars>>
    /\ UNCHANGED diag

\* CreateSwapChainForHwnd rejects a null window handle; swapChain1.As follows.
CreateSwapChain ==
    /\ pc = "CreateSwapChainForHwnd"
    /\ \E hr \in (IF hwnd = "valid" THEN HRESULT ELSE {"E_FAIL"}) :
          /\ ThrowIfFailed(hr, "GetCurrentBackBufferIndex")
          /\ created' = IF FAILED(hr) THEN created ELSE created \cup {"swapChain"}
    /\ UNCHANGED InitRest
    /\ UNCHANGED <<listVars, gpuVars, evtVars, hostVars, histVars>>
    /\ UNCHANGED diag

InitFrameIndex ==
    /\ pc = "GetCurrentBackBufferIndex"
    /\ g_frameIndex' = swapIndex
    /\ pc' = "CreateDescriptorHeap"
    /\ UNCHANGED <<variant, g_fenceValue, g_fenceEvent, hwnd, shown, created,
                   rtv, swapIndex>>
    /\ UNCHANGED <<listVars, gpuVars, evtVars, hostVars, histVars>>
    /\ UNCHANGED <<failedCalls, diag>>

CreateRtvHeap ==
    /\ CheckedCreate("CreateDescriptorHeap", "rtvHeap", "GetBuffer")
    /\ UNCHANGED InitRest
    /\ UNCHANGED <<listVars, gpuVars, evtVars, hostVars, histVars>>
    /\ UNCHANGED diag

\* Mutant: rtvHandle is not advanced, every view is written to slot 0.
RECURSIVE RtvLoop_NoAdvance(_, _, _)
RtvLoop_NoAdvance(i, heap, oks) ==
    IF i >= BufferCount THEN [heap |-> heap, ok |-> TRUE]
    ELSE IF ~oks[i] THEN [heap |-> heap, ok |-> FALSE]
    ELSE RtvLoop_NoAdvance(i + 1, [heap EXCEPT ![0] = i], oks)

\* for (i = 0; i < 2; ++i) { GetBuffer(i); CreateRenderTargetView(slot i) }
RECURSIVE RtvLoop(_, _, _)
RtvLoop(i, heap, oks) ==
    IF i >= BufferCount THEN [heap |-> heap, ok |-> TRUE]
    ELSE IF ~oks[i] THEN [heap |-> heap, ok |-> FALSE]
    ELSE RtvLoop(i + 1, [heap EXCEPT ![i] = i], oks)

CreateRenderTargetViews ==
    /\ pc = "GetBuffer"
    /\ \E oks \in [0..(BufferCount - 1) -> BOOLEAN] :
          LET r == RtvLoop(0, rtv, oks) IN
          /\ rtv' = r.heap
          /\ ThrowIfFailed(IF r.ok THEN "S_OK" ELSE "E_FAIL",
                           "CreateCommandAllocator")
          /\ created' = IF r.ok THEN created \cup {"renderTargets"} ELSE created
    /\ UNCHANGED <<variant, g_frameIndex, g_fenceValue, g_fenceEvent, hwnd,
                   shown, swapIndex>>
    /\ UNCHANGED <<listVars, gpuVars, evtVars, hostVars, histVars>>
    /\ UNCHANGED diag

CreateCommandAllocator ==
    /\ CheckedCreate("CreateCommandAllocator", "allocator", "CreateCommandList")
    /\ UNCHANGED InitRest
    /\ UNCHANGED <<listVars, gpuVars, evtVars, hostVars, histVars>>
    /\ UNCHANGED diag

\* CreateCommandList returns the list in the recording (open) state.
CreateCommandList ==
    /\ pc = "CreateCommandList"
    /\ \E hr \in HRESULT :
          /\ ThrowIfFailed(hr, "InitClose")
          /\ created' = IF FAILED(hr) THEN created ELSE created \cup {"list"}
          /\ listState' = IF FAILED(hr) THEN listState ELSE "open"
    /\ UNCHANGED InitRest
    /\ UNCHANGED <<recorded, unmatchedResets>>
    /\ UNCHANGED <<gpuVars, evtVars, hostVars, histVars>>
    /\ UNCHANGED diag

\* g_commandList->Close(): the HRESULT is discarded.  A list whose Close
\* failed stays in an error state in which Reset fails.
InitClose ==
    /\ pc = "InitClose"
    /\ \E hr \in HRESULT :
          /\ listState' = IF FAILED(hr) THEN "error" ELSE "closed"
          /\ failedCalls' =
                IF FAILED(hr) THEN failedCalls \cup {pc} ELSE failedCalls
    /\ unmatchedResets' = 0
    /\ pc' = "CreateFence"
    /\ UNCHANGED diag
    /\ UNCHANGED <<InitRest, created, recorded>>
    /\ UNCHANGED <<gpuVars, evtVars, hostVars, histVars>>

\* CreateFence(0, ...); g_fenceValue = 1
CreateFence ==
    /\ pc = "CreateFence"
    /\ \E hr \in HRESULT :
          /\ ThrowIfFailed(hr, "CreateEvent")
          /\ created' = IF FAILED(hr) THEN created ELSE created \cup {"fence"}
          /\ g_fenceValue' = IF FAILED(hr) THEN g_fenceValue ELSE 1
    /\ UNCHANGED <<variant, g_frameIndex, g_fenceEvent, hwnd, shown, rtv,
                   swapIndex>>
    /\ UNCHANGED <<listVars, gpuVars, evtVars, hostVars, histVars>>
    /\ UNCHANGED diag

\* g_fenceEvent = CreateEvent(nullptr, FALSE, FALSE, nullptr); throw if null.
\* dx12window.cpp: InitD3D12 returns here.
CreateEventStep ==
    /\ pc = "CreateEvent"
    /\ \E h \in {"open", "null"} :
          /\ g_fenceEvent' = h
          /\ failedCalls' =
                IF h = "null" THEN failedCalls \cup {pc} ELSE failedCalls
          /\ pc' = IF h = "null" THEN "terminated"
                   ELSE IF variant = "main" THEN "CreateRootSignature"
                   ELSE "PeekMessage"
    /\ UNCHANGED <<variant, g_frameIndex, g_fenceValue, hwnd, shown, created,
                   rtv, swapIndex>>
    /\ UNCHANGED <<listVars, gpuVars, evtVars, hostVars, histVars>>
    /\ UNCHANGED diag

\* main.cpp only: D3D12SerializeRootSignature + CreateRootSignature.
CreateRootSignature ==
    /\ CheckedCreate("CreateRootSignature", "rootSig", "CompileVS")
    /\ UNCHANGED InitRest
    /\ UNCHANGED <<listVars, gpuVars, evtVars, hostVars, histVars>>
    /\ UNCHANGED diag

\* Mutant: the error blob is never written to the debug stream.
CompileShader_Silent(from, blob, next) ==
    /\ pc = from
    /\ \E hr \in HRESULT, errors \in BOOLEAN :
          /\ ThrowIfFailed(hr, next)
          /\ created' = IF FAILED(hr) THEN created ELSE created \cup {blob}
          /\ diag' = IF FAILED(hr)
                     THEN [shader |-> from, errors |-> errors,
                           emitted |-> FALSE]
                     ELSE diag

\* CompileShader: when D3DCompile fails, the error blob, if the compiler
\* returned one, is written to the debug stream, and an error is thrown.
CompileShader(from, blob, next) ==
    /\ pc = from
    /\ \E hr \in HRESULT, errors \in BOOLEAN :
          /\ ThrowIfFailed(hr, next)
          /\ created' = IF FAILED(hr) THEN created ELSE created \cup {blob}
          /\ diag' = IF FAILED(hr)
                     THEN [shader |-> from, errors |-> errors,
                           emitted |-> errors]
                     ELSE diag

CompileVS ==
    /\ CompileShader("CompileVS", "vsBlob", "CompilePS")
    /\ UNCHANGED InitRest
    /\ UNCHANGED <<listVars, gpuVars, evtVars, hostVars, histVars>>

CompilePS ==
    /\ CompileShader("CompilePS", "psBlob", "CreateGraphicsPipelineState")
    /\ UNCHANGED InitRest
    /\ UNCHANGED <<listVars, gpuVars, evtVars, hostVars, histVars>>

CreatePSO ==
    /\ CheckedCreate("CreateGraphicsPipelineState", "pso",
                     "CreateCommittedResource")
    /\ UNCHANGED InitRest
    /\ UNCHANGED <<listVars, gpuVars, evtVars, hostVars, histVars>>
    /\ UNCHANGED diag

CreateVertexBuffer ==
    /\ CheckedCreate("CreateCommittedResource", "vertexBuffer", "Map")
    /\ UNCHANGED InitRest
    /\ UNCHANGED <<listVars, gpuVars, evtVars, hostVars, histVars>>
    /\ UNCHANGED diag

\* Map, memcpy, Unmap, fill g_vbView; InitD3D12 returns.
MapVertexBuffer ==
    /\ CheckedCreate("Map", "vbView", "PeekMessage")
    /\ UNCHANGED InitRest
    /\ UNCHANGED <<listVars, gpuVars, evtVars, hostVars, histVars>>
    /\ UNCHANGED diag

(***************************************************************************)
(* Render.                                                                 *)
(***************************************************************************)
\* The operations of one frame, in program order.
FrameProtocol ==
    <<"AllocatorReset", "ListReset", "Record", "Close", "ExecuteCommandLists",
      "Present", "Signal", "Wait", "IncFenceValue", "UpdateFrameIndex">>

Cmd(op, slot) == [op |-> op, slot |-> slot]

\* The commands recorded between list Reset and Close; the RTV handle is
\* heap start + g_frameIndex * rtvSize, i.e. heap slot g_frameIndex.
FrameCommands(v, frameIndex) ==
    IF v = "main"
    THEN <<Cmd("RSSetViewports", -1), Cmd("RSSetScissorRects", -1),
           Cmd("OMSetRenderTargets", frameIndex),
           Cmd("ClearRenderTargetView", frameIndex),
           Cmd("IASetPrimitiveTopology", -1), Cmd("IASetVertexBuffers", -1),
           Cmd("DrawInstanced", -1)>>
    ELSE <<Cmd("ClearRenderTargetView", frameIndex)>>

Work(type, v) == [type |-> type, v |-> v]

\* The allocator's commands are still queued on the GPU.
AllocatorInFlight == \E i \in 1..Len(gpuQueue) : gpuQueue[i].type = "exec"

RenderRest == <<variant, g_frameIndex, g_fenceValue, g_fenceEvent>>

\* Mutant: the clear-only program does not reset its allocator.
AllocatorReset_ClearOnlySkips ==
    /\ pc = "AllocatorReset"
    /\ \E hr \in HRESULT : ThrowIfFailed(hr, "ListReset")
    /\ frameOps' = IF variant = "main" THEN Append(frameOps, "AllocatorReset")
                   ELSE frameOps
    /\ UNCHANGED <<RenderRest, initVars, listVars, swapIndex, gpuVars, evtVars,
                   hostVars>>
    /\ UNCHANGED <<renderCalls, framesRendered, lastSignaled, allocFence,
                   pollSaw, waited, regFor, destroyAt, closeCount>>
    /\ UNCHANGED diag

\* ThrowIfFailed(g_commandAllocator->Reset())
AllocatorReset ==
    /\ pc = "AllocatorReset"
    /\ \E hr \in HRESULT : ThrowIfFailed(hr, "ListReset")
    /\ frameOps' = Append(frameOps, "AllocatorReset")
    /\ UNCHANGED <<RenderRest, initVars, listVars, swapIndex, gpuVars, evtVars,
                   hostVars>>
    /\ UNCHANGED <<renderCalls, framesRendered, lastSignaled, allocFence,
                   pollSaw, waited, regFor, destroyAt, closeCount>>
    /\ UNCHANGED diag

\* ThrowIfFailed(g_commandList->Reset(allocator, pso)): fails unless the list
\* is closed.
ListReset ==
    /\ pc = "ListReset"
    /\ \E hr \in (IF listState = "closed" THEN HRESULT ELSE {"E_FAIL"}) :
          /\ ThrowIfFailed(hr, "Record")
          /\ listState' = IF FAILED(hr) THEN listState ELSE "open"
          /\ recorded' = IF FAILED(hr) THEN recorded ELSE <<>>
          /\ unmatchedResets' =
                IF FAILED(hr) THEN unmatchedResets ELSE unmatchedResets + 1
    /\ frameOps' = Append(frameOps, "ListReset")
    /\ UNCHANGED <<RenderRest, initVars, swapIndex, gpuVars, evtVars, hostVars>>
    /\ UNCHANGED <<renderCalls, framesRendered, lastSignaled, allocFence,
                   pollSaw, waited, regFor, destroyAt, closeCount>>
    /\ UNCHANGED diag

\* Viewport, scissor, render target, clear, draw: the recording calls return
\* no status.
RecordCommands ==
    /\ pc = "Record"
    /\ recorded' = recorded \o FrameCommands(variant, g_frameIndex)
    /\ pc' = "Close"
    /\ frameOps' = Append(frameOps, "Record")
    /\ UNCHANGED <<RenderRest, initVars, listState, unmatchedResets, swapIndex,
                   gpuVars, evtVars, hostVars>>
    /\ UNCHANGED <<renderCalls, framesRendered, lastSignaled, allocFence,
                   pollSaw, waited, regFor, destroyAt, closeCount>>
    /\ UNCHANGED <<failedCalls, diag>>

\* Mutant: the closed list is never submitted to the queue.
ListClose_NoSubmit ==
    /\ pc = "Close"
    /\ \E hr \in HRESULT :
          /\ ThrowIfFailed(hr, "Present")
          /\ listState' = IF FAILED(hr) THEN "error" ELSE "closed"
    /\ unmatchedResets' = 0
    /\ frameOps' = Append(frameOps, "Close")
    /\ UNCHANGED <<RenderRest, initVars, recorded, swapIndex, gpuVars, evtVars,
                   hostVars>>
    /\ UNCHANGED <<renderCalls, framesRendered, lastSignaled, allocFence,
                   pollSaw, waited, regFor, destroyAt, closeCount>>
    /\ UNCHANGED diag

\* Mutant: Close is called a second time on the list it has just closed.
ListClose_Twice ==
    /\ pc = "Close"
    /\ \E hr \in HRESULT :
          /\ ThrowIfFailed(hr, IF unmatchedResets = 1 THEN "Close"
                               ELSE "ExecuteCommandLists")
          /\ listState' = IF FAILED(hr) THEN "error" ELSE "closed"
    /\ unmatchedResets' = 0
    /\ frameOps' = IF unmatchedResets = 1 THEN Append(frameOps, "Close")
                   ELSE frameOps
    /\ UNCHANGED <<RenderRest, initVars, recorded, swapIndex, gpuVars, evtVars,
                   hostVars>>
    /\ UNCHANGED <<renderCalls, framesRendered, lastSignaled, allocFence,
                   pollSaw, waited, regFor, destroyAt, closeCount>>
    /\ UNCHANGED diag

\* ThrowIfFailed(g_commandList->Close())
ListClose ==
    /\ pc = "Close"
    /\ \E hr \in HRESULT :
          /\ ThrowIfFailed(hr, "ExecuteCommandLists")
          /\ listState' = IF FAILED(hr) THEN "error" ELSE "closed"
    /\ unmatchedResets' = 0
    /\ frameOps' = Append(frameOps, "Close")
    /\ UNCHANGED <<RenderRest, initVars, recorded, swapIndex, gpuVars, evtVars,
                   hostVars>>
    /\ UNCHANGED <<renderCalls, framesRendered, lastSignaled, allocFence,
                   pollSaw, waited, regFor, destroyAt, closeCount>>
    /\ UNCHANGED diag

\* g_commandQueue->ExecuteCommandLists(1, lists)
ExecuteCommandLists ==
    /\ pc = "ExecuteCommandLists"
    /\ gpuQueue' = Append(gpuQueue, Work("exec", 0))
    /\ pc' = "Present"
    /\ frameOps' = Append(frameOps, "ExecuteCommandLists")
    /\ UNCHANGED <<RenderRest, initVars, listVars, swapIndex, fenceCompleted,
                   evtVars, hostVars>>
    /\ UNCHANGED <<renderCalls, framesRendered, lastSignaled, allocFence,
                   pollSaw, waited, regFor, destroyAt, closeCount>>
    /\ UNCHANGED <<failedCalls, diag>>

\* ThrowIfFailed(g_swapChain->Present(1, 0)): the flip is queued behind the
\* frame's commands and the current back buffer moves to the next buffer.
Present ==
    /\ pc = "Present"
    /\ \E hr \in HRESULT :
          /\ ThrowIfFailed(hr, "Signal")
          /\ swapIndex' = IF FAILED(hr) THEN swapIndex
                          ELSE (swapIndex + 1) % BufferCount
          /\ gpuQueue' = IF FAILED(hr) THEN gpuQueue
                         ELSE Append(gpuQueue, Work("present", 0))
    /\ frameOps' = Append(frameOps, "Present")
    /\ UNCHANGED <<RenderRest, initVars, listVars, fenceCompleted, evtVars,
                   hostVars>>
    /\ UNCHANGED <<renderCalls, framesRendered, lastSignaled, allocFence,
                   pollSaw, waited, regFor, destroyAt, closeCount>>
    /\ UNCHANGED diag

\* Mutant: the queue is asked to signal g_fenceValue + 1.
SignalFence_OffByOne ==
    /\ pc = "Signal"
    /\ \E hr \in HRESULT :
          /\ ThrowIfFailed(hr, "GetCompletedValue")
          /\ gpuQueue' = IF FAILED(hr) THEN gpuQueue
                         ELSE Append(gpuQueue, Work("signal", g_fenceValue + 1))
          /\ lastSignaled' =
                IF FAILED(hr) THEN lastSignaled ELSE g_fenceValue + 1
          /\ allocFence' = IF FAILED(hr) THEN allocFence ELSE g_fenceValue + 1
    /\ frameOps' = Append(frameOps, "Signal")
    /\ UNCHANGED <<RenderRest, initVars, listVars, swapIndex, fenceCompleted,
                   evtVars, hostVars>>
    /\ UNCHANGED <<renderCalls, framesRendered, pollSaw, waited, regFor,
                   destroyAt, closeCount>>
    /\ UNCHANGED diag

\* ThrowIfFailed(g_commandQueue->Signal(g_fence.Get(), g_fenceValue))
SignalFence ==
    /\ pc = "Signal"
    /\ \E hr \in HRESULT :
          /\ ThrowIfFailed(hr, "GetCompletedValue")
          /\ gpuQueue' = IF FAILED(hr) THEN gpuQueue
                         ELSE Append(gpuQueue, Work("signal", g_fenceValue))
          /\ lastSignaled' = IF FAILED(hr) THEN lastSignaled ELSE g_fenceValue
          /\ allocFence' = IF FAILED(hr) THEN allocFence ELSE g_fenceValue
    /\ frameOps' = Append(frameOps, "Signal")
    /\ UNCHANGED <<RenderRest, initVars, listVars, swapIndex, fenceCompleted,
                   evtVars, hostVars>>
    /\ UNCHANGED <<renderCalls, framesRendered, pollSaw, waited, regFor,
                   destroyAt, closeCount>>
    /\ UNCHANGED diag

\* Mutant: the completed value is read but the frame never waits for it.
PollFence_NoWait ==
    /\ pc = "GetCompletedValue"
    /\ pollSaw' = fenceCompleted
    /\ pc' = "IncFenceValue"
    /\ frameOps' = Append(frameOps, "Wait")
    /\ UNCHANGED <<RenderRest, initVars, listVars, swapIndex, gpuVars, evtVars,
                   hostVars>>
    /\ UNCHANGED <<renderCalls, framesRendered, lastSignaled, allocFence,
                   waited, regFor, destroyAt, closeCount>>
    /\ UNCHANGED <<failedCalls, diag>>

\* Mutant: the poll compares with <= and so also waits for a value that has
\* already completed.
PollFence_Le ==
    /\ pc = "GetCompletedValue"
    /\ pollSaw' = fenceCompleted
    /\ IF fenceCompleted <= g_fenceValue
       THEN /\ pc' = "SetEventOnCompletion"
            /\ frameOps' = frameOps
       ELSE /\ pc' = "IncFenceValue"
            /\ frameOps' = Append(frameOps, "Wait")
    /\ UNCHANGED <<RenderRest, initVars, listVars, swapIndex, gpuVars, evtVars,
                   hostVars>>
    /\ UNCHANGED <<renderCalls, framesRendered, lastSignaled, allocFence,
                   waited, regFor, destroyAt, closeCount>>
    /\ UNCHANGED <<failedCalls, diag>>

\* if (g_fence->GetCompletedValue() < g_fenceValue) { ... }
PollFence ==
    /\ pc = "GetCompletedValue"
    /\ pollSaw' = fenceCompleted
    /\ IF fenceCompleted < g_fenceValue
       THEN /\ pc' = "SetEventOnCompletion"
            /\ frameOps' = frameOps
       ELSE /\ pc' = "IncFenceValue"
            /\ frameOps' = Append(frameOps, "Wait")
    /\ UNCHANGED <<RenderRest, initVars, listVars, swapIndex, gpuVars, evtVars,
                   hostVars>>
    /\ UNCHANGED <<renderCalls, framesRendered, lastSignaled, allocFence,
                   waited, regFor, destroyAt, closeCount>>
    /\ UNCHANGED <<failedCalls, diag>>

\* Mutant: the completion is registered but the CPU does not wait for it.
SetEventOnCompletion_NoWait ==
    /\ pc = "SetEventOnCompletion"
    /\ \E hr \in HRESULT :
          /\ ThrowIfFailed(hr, "IncFenceValue")
          /\ fenceRegs' = IF FAILED(hr) THEN fenceRegs
                          ELSE fenceRegs \cup {g_fenceValue}
          /\ regFor' = IF FAILED(hr) THEN regFor ELSE g_fenceValue
    /\ UNCHANGED <<RenderRest, initVars, listVars, swapIndex, gpuVars,
                   eventSignaled, hostVars>>
    /\ UNCHANGED <<renderCalls, framesRendered, lastSignaled, allocFence,
                   frameOps, pollSaw, waited, destroyAt, closeCount>>
    /\ UNCHANGED diag

\* ThrowIfFailed(g_fence->SetEventOnCompletion(g_fenceValue, g_fenceEvent))
SetEventOnCompletion ==
    /\ pc = "SetEventOnCompletion"
    /\ \E hr \in HRESULT :
          /\ ThrowIfFailed(hr, "WaitForSingleObject")
          /\ fenceRegs' = IF FAILED(hr) THEN fenceRegs
                          ELSE fenceRegs \cup {g_fenceValue}
          /\ regFor' = IF FAILED(hr) THEN regFor ELSE g_fenceValue
    /\ UNCHANGED <<RenderRest, initVars, listVars, swapIndex, gpuVars,
                   eventSignaled, hostVars>>
    /\ UNCHANGED <<renderCalls, framesRendered, lastSignaled, allocFence,
                   frameOps, pollSaw, waited, destroyAt, closeCount>>
    /\ UNCHANGED diag

\* Mutant: the wait has a timeout and may return without the event.
WaitForSingleObject_Timeout ==
    /\ pc = "WaitForSingleObject"
    /\ eventSignaled' = FALSE
    /\ waited' = TRUE
    /\ pc' = "IncFenceValue"
    /\ frameOps' = Append(frameOps, "Wait")
    /\ UNCHANGED <<RenderRest, initVars, listVars, swapIndex, gpuVars,
                   fenceRegs, hostVars>>
    /\ UNCHANGED <<renderCalls, framesRendered, lastSignaled, allocFence,
                   pollSaw, regFor, destroyAt, closeCount>>
    /\ UNCHANGED <<failedCalls, diag>>

\* WaitForSingleObject(g_fenceEvent, INFINITE): returns once the event is
\* signaled; the auto-reset event is consumed by the wake-up.  The handle
\* is valid here (null was rejected when it was created, and it is closed
\* only at cleanup); the return value is not examined.
WaitForSingleObject ==
    /\ pc = "WaitForSingleObject"
    /\ eventSignaled
    /\ eventSignaled' = FALSE
    /\ waited' = TRUE
    /\ pc' = "IncFenceValue"
    /\ frameOps' = Append(frameOps, "Wait")
    /\ UNCHANGED <<RenderRest, initVars, listVars, swapIndex, gpuVars,
                   fenceRegs, hostVars>>
    /\ UNCHANGED <<renderCalls, framesRendered, lastSignaled, allocFence,
                   pollSaw, regFor, destroyAt, closeCount>>
    /\ UNCHANGED <<failedCalls, diag>>

\* Mutant: the counter is not incremented.
IncFenceValue_Skip ==
    /\ pc = "IncFenceValue"
    /\ pc' = "UpdateFrameIndex"
    /\ frameOps' = Append(frameOps, "IncFenceValue")
    /\ UNCHANGED <<RenderRest, initVars, listVars, swapIndex, gpuVars, evtVars,
                   hostVars>>
    /\ UNCHANGED <<renderCalls, framesRendered, lastSignaled, allocFence,
                   pollSaw, waited, regFor, destroyAt, closeCount>>
    /\ UNCHANGED <<failedCalls, diag>>

\* ++g_fenceValue
IncFenceValue ==
    /\ pc = "IncFenceValue"
    /\ g_fenceValue' = g_fenceValue + 1
    /\ pc' = "UpdateFrameIndex"
    /\ frameOps' = Append(frameOps, "IncFenceValue")
    /\ UNCHANGED <<variant, g_frameIndex, g_fenceEvent, initVars, listVars,
                   swapIndex, gpuVars, evtVars, hostVars>>
    /\ UNCHANGED <<renderCalls, framesRendered, lastSignaled, allocFence,
                   pollSaw, waited, regFor, destroyAt, closeCount>>
    /\ UNCHANGED <<failedCalls, diag>>

\* Mutant: g_frameIndex is not refreshed from the swap chain.
UpdateFrameIndex_Stale ==
    /\ pc = "UpdateFrameIndex"
    /\ framesRendered' = framesRendered + 1
    /\ pc' = "PeekMessage"
    /\ frameOps' = Append(frameOps, "UpdateFrameIndex")
    /\ UNCHANGED <<variant, g_frameIndex, g_fenceValue, g_fenceEvent, initVars,
                   listVars, swapIndex, gpuVars, evtVars, hostVars>>
    /\ UNCHANGED <<renderCalls, lastSignaled, allocFence, pollSaw, waited,
                   regFor, destroyAt, closeCount>>
    /\ UNCHANGED <<failedCalls, diag>>

\* Mutant: g_frameIndex is counted up by hand, without wrapping.
UpdateFrameIndex_Increment ==
    /\ pc = "UpdateFrameIndex"
    /\ g_frameIndex' = g_frameIndex + 1
    /\ framesRendered' = framesRendered + 1
    /\ pc' = "PeekMessage"
    /\ frameOps' = Append(frameOps, "UpdateFrameIndex")
    /\ UNCHANGED <<variant, g_fenceValue, g_fenceEvent, initVars, listVars,
                   swapIndex, gpuVars, evtVars, hostVars>>
    /\ UNCHANGED <<renderCalls, lastSignaled, allocFence, pollSaw, waited,
                   regFor, destroyAt, closeCount>>
    /\ UNCHANGED <<failedCalls, diag>>

\* g_frameIndex = g_swapChain->GetCurrentBackBufferIndex(); Render returns.
UpdateFrameIndex ==
    /\ pc = "UpdateFrameIndex"
    /\ g_frameIndex' = swapIndex
    /\ framesRendered' = framesRendered + 1
    /\ pc' = "PeekMessage"
    /\ frameOps' = Append(frameOps, "UpdateFrameIndex")
    /\ UNCHANGED <<variant, g_fenceValue, g_fenceEvent, initVars, listVars,
                   swapIndex, gpuVars, evtVars, hostVars>>
    /\ UNCHANGED <<renderCalls, lastSignaled, allocFence, pollSaw, waited,
                   regFor, destroyAt, closeCount>>
    /\ UNCHANGED <<failedCalls, diag>>

(***************************************************************************)
(* WinMain: the message pump and the cleanup step.                         *)
(***************************************************************************)
\* WindowProc: WM_DESTROY calls PostQuitMessage(0) (TRUE); everything else
\* goes to DefWindowProc.
WindowProc(uMsg) == uMsg = "WM_DESTROY"

\* The messages WindowProc receives while m is dispatched: DefWindowProc
\* answers WM_CLOSE by destroying the window, which sends WM_DESTROY to the
\* window procedure before DispatchMessage returns; WM_QUIT has no window.
Delivered(m) ==
    CASE m = "WM_CLOSE" -> {"WM_CLOSE", "WM_DESTROY"}
      [] m = "WM_QUIT" -> {}
      [] OTHER -> {m}

\* PeekMessage(&msg, nullptr, 0, 0, PM_REMOVE) returning TRUE: posted messages
\* first, WM_QUIT once the queue is empty and a quit is pending.
PeekMessage ==
    /\ pc = "PeekMessage"
    /\ \/ /\ msgQueue # <<>>
          /\ msg' = Head(msgQueue)
          /\ msgQueue' = Tail(msgQueue)
          /\ quitFlag' = quitFlag
       \/ /\ msgQueue = <<>>
          /\ quitFlag
          /\ msg' = "WM_QUIT"
          /\ msgQueue' = msgQueue
          /\ quitFlag' = FALSE
    /\ pc' = "DispatchMessage"
    /\ UNCHANGED <<RenderRest, initVars, listVars, swapIndex, gpuVars, evtVars,
                   posted, destroySent, histVars>>
    /\ UNCHANGED <<failedCalls, diag>>

\* Mutant: Render() is called without draining the queue first.
CallRender_Eager ==
    /\ pc = "PeekMessage"
    /\ renderCalls < MaxFrames
    /\ renderCalls' = renderCalls + 1
    /\ frameOps' = <<>>
    /\ pollSaw' = -1
    /\ waited' = FALSE
    /\ regFor' = -1
    /\ pc' = "AllocatorReset"
    /\ UNCHANGED <<RenderRest, initVars, listVars, swapIndex, gpuVars, evtVars,
                   hostVars>>
    /\ UNCHANGED <<framesRendered, lastSignaled, allocFence, destroyAt,
                   closeCount>>
    /\ UNCHANGED <<failedCalls, diag>>

\* PeekMessage returning FALSE: the inner loop ends and Render() is called.
CallRender ==
    /\ pc = "PeekMessage"
    /\ msgQueue = <<>>
    /\ ~quitFlag
    /\ renderCalls < MaxFrames
    /\ renderCalls' = renderCalls + 1
    /\ frameOps' = <<>>
    /\ pollSaw' = -1
    /\ waited' = FALSE
    /\ regFor' = -1
    /\ pc' = "AllocatorReset"
    /\ UNCHANGED <<RenderRest, initVars, listVars, swapIndex, gpuVars, evtVars,
                   hostVars>>
    /\ UNCHANGED <<framesRendered, lastSignaled, allocFence, destroyAt,
                   closeCount>>
    /\ UNCHANGED <<failedCalls, diag>>

\* TranslateMessage(&msg); DispatchMessage(&msg);
DispatchMessage ==
    /\ pc = "DispatchMessage"
    /\ IF \E m \in Delivered(msg) : WindowProc(m)
       THEN /\ quitFlag' = TRUE
            /\ destroyAt' = framesRendered
       ELSE UNCHANGED <<quitFlag, destroyAt>>
    /\ pc' = "CheckQuit"
    /\ UNCHANGED <<RenderRest, initVars, listVars, swapIndex, gpuVars, evtVars,
                   msgQueue, msg, posted, destroySent>>
    /\ UNCHANGED <<renderCalls, framesRendered, lastSignaled, allocFence,
                   frameOps, pollSaw, waited, regFor, closeCount>>
    /\ UNCHANGED <<failedCalls, diag>>

\* Mutant: WM_QUIT only ends the inner loop; the outer loop keeps running.
CheckQuit_NoExit ==
    /\ pc = "CheckQuit"
    /\ pc' = "PeekMessage"
    /\ UNCHANGED <<RenderRest, initVars, listVars, swapIndex, gpuVars, evtVars,
                   hostVars, histVars>>
    /\ UNCHANGED <<failedCalls, diag>>

\* if (msg.message == WM_QUIT) goto cleanup;
CheckQuit ==
    /\ pc = "CheckQuit"
    /\ pc' = IF msg = "WM_QUIT" THEN "cleanup" ELSE "PeekMessage"
    /\ UNCHANGED <<RenderRest, initVars, listVars, swapIndex, gpuVars, evtVars,
                   hostVars, histVars>>
    /\ UNCHANGED <<failedCalls, diag>>

\* cleanup: CloseHandle(g_fenceEvent); return 0;
Cleanup ==
    /\ pc = "cleanup"
    /\ g_fenceEvent' = "closed"
    /\ closeCount' = closeCount + 1
    /\ pc' = "exited"
    /\ UNCHANGED <<variant, g_frameIndex, g_fenceValue, initVars, listVars,
                   swapIndex, gpuVars, evtVars, hostVars>>
    /\ UNCHANGED <<renderCalls, framesRendered, lastSignaled, allocFence,
                   frameOps, pollSaw, waited, regFor, destroyAt>>
    /\ UNCHANGED <<failedCalls, diag>>

(***************************************************************************)
(* The GPU: executes the queue in submission order; a queued Signal sets   *)
(* the fence; the fence sets the event of every registration it reached.   *)
(***************************************************************************)
GPUExecute ==
    /\ gpuQueue # <<>>
    /\ fenceCompleted' = IF Head(gpuQueue).type = "signal"
                         THEN Head(gpuQueue).v ELSE fenceCompleted
    /\ gpuQueue' = Tail(gpuQueue)
    /\ UNCHANGED <<progVars, initVars, listVars, swapIndex, evtVars, hostVars,
                   histVars>>
    /\ UNCHANGED <<failedCalls, diag>>

FenceFire ==
    /\ \E v \in fenceRegs :
          /\ fenceCompleted >= v
          /\ fenceRegs' = fenceRegs \ {v}
    /\ eventSignaled' = TRUE
    /\ UNCHANGED <<progVars, initVars, listVars, swapIndex, gpuVars, hostVars,
                   histVars>>
    /\ UNCHANGED <<failedCalls, diag>>

(***************************************************************************)
(* The host: posts messages to the window while the process runs; the      *)
(* window is closed, and so destroyed, at most once.                       *)
(***************************************************************************)
Running == pc \notin {"terminated", "exited"}

PostMessage ==
    /\ Running
    /\ hwnd = "valid"
    /\ posted < MaxMsgs
    /\ \E m \in {"WM_PAINT", "WM_CLOSE"} :
          /\ m = "WM_CLOSE" => ~destroySent
          /\ msgQueue' = Append(msgQueue, m)
          /\ destroySent' = (destroySent \/ m = "WM_CLOSE")
    /\ posted' = posted + 1
    /\ UNCHANGED <<progVars, initVars, listVars, swapIndex, gpuVars, evtVars,
                   quitFlag, msg, histVars>>
    /\ UNCHANGED <<failedCalls, diag>>

CPU ==
    \/ CreateWindow \/ ShowWindowStep
    \/ CreateFactory \/ CreateDevice \/ CreateCommandQueue \/ CreateSwapChain
    \/ InitFrameIndex \/ CreateRtvHeap \/ CreateRenderTargetViews
    \/ CreateCommandAllocator \/ CreateCommandList \/ InitClose \/ CreateFence
    \/ CreateEventStep \/ CreateRootSignature \/ CompileVS \/ CompilePS
    \/ CreatePSO \/ CreateVertexBuffer \/ MapVertexBuffer
    \/ PeekMessage \/ CallRender \/ DispatchMessage \/ CheckQuit \/ Cleanup
    \/ AllocatorReset \/ ListReset \/ RecordCommands \/ ListClose
    \/ ExecuteCommandLists \/ Present \/ SignalFence \/ PollFence
    \/ SetEventOnCompletion \/ WaitForSingleObject \/ IncFenceValue
    \/ UpdateFrameIndex

GPU == GPUExecute \/ FenceFire

Next == CPU \/ GPU \/ PostMessage

Spec == Init /\ [][Next]_vars

\* The CPU thread runs whenever it is not blocked, and the GPU eventually
\* executes what was submitted and fires reached fence registrations.
FairSpec ==
    Spec /\ WF_vars(CPU) /\ WF_vars(GPUExecute) /\ WF_vars(FenceFire)

(***************************************************************************)
(* Properties.                                                             *)
(***************************************************************************)
\* The CPU is not inside Render and InitD3D12 has returned.
OutsideRender ==
    pc \in {"PeekMessage", "DispatchMessage", "CheckQuit", "cleanup", "exited"}

\* C1: whenever Render is about to call CommandAllocator::Reset, the fence's
\* completed value has reached the value signaled after the allocator's
\* commands were last submitted (0 when nothing was submitted yet), so an
\* allocator that rejects Reset while that value is incomplete never rejects.
AllocatorResetSafe ==
    pc = "AllocatorReset" => fenceCompleted >= allocFence

\* The third frame resets the allocator whose commands were followed by
\* Signal(2), which the GPU has executed.
AllocatorResetSafeWitness ==
    /\ pc = "AllocatorReset"
    /\ renderCalls = 3
    /\ allocFence = 2
    /\ fenceCompleted = 2
    /\ ~AllocatorInFlight

\* C2: once the n-th call of Render has returned (n >= 1) the fence's
\* completed value is at least n and g_fenceValue = n + 1; after
\* initialization (n = 0) the counter is 1 and the fence 0.
FenceMonotonicity ==
    OutsideRender =>
        /\ g_fenceValue = framesRendered + 1
        /\ fenceCompleted >= framesRendered
        /\ framesRendered = 0 => fenceCompleted = 0

FenceMonotonicityWitness ==
    /\ pc = "PeekMessage"
    /\ framesRendered = 3
    /\ g_fenceValue = 4

\* C3: CompletedValue <= last value passed to queue.Signal <= g_fenceValue in
\* every state, and the completed value never decreases.
FenceOrder ==
    /\ fenceCompleted <= lastSignaled
    /\ lastSignaled <= g_fenceValue

FenceInvariant ==
    /\ []FenceOrder
    /\ [][fenceCompleted' >= fenceCompleted]_vars

\* The GPU has completed Signal(2) while the CPU still holds g_fenceValue = 2.
FenceInvariantWitness ==
    /\ fenceCompleted = 2
    /\ lastSignaled = 2
    /\ g_fenceValue = 2

\* C4: outside a Render call (after InitD3D12 returned, between frames, at
\* quit) g_frameIndex equals the swap chain's CurrentBackBufferIndex.
FrameIndexMatchesSwapChain ==
    OutsideRender => g_frameIndex = swapIndex

FrameIndexMatchesSwapChainWitness ==
    /\ pc = "exited"
    /\ framesRendered = 1
    /\ swapIndex = 1
    /\ g_frameIndex = 1

\* C5: the g_frameIndex observed at the start of the n-th Render is
\* (n - 1) mod 2: the sequence 0, 1, 0, 1, ...
FrameIndexAlternates ==
    pc = "AllocatorReset" => g_frameIndex = (renderCalls - 1) % BufferCount

\* The third frame starts on buffer 0 again.
FrameIndexAlternatesWitness ==
    /\ pc = "AllocatorReset"
    /\ renderCalls = 3
    /\ g_frameIndex = 0
    /\ swapIndex = 0

\* C6: the fence wait for v = g_fenceValue returns at once and registers
\* nothing when the poll sees the completed value >= v; otherwise it
\* registers the event for v and blocks; the CPU leaves the wait only in a
\* state where the completed value is >= v, and it does leave it once the
\* fence has crossed v.
FenceWaitSafe ==
    /\ pc = "IncFenceValue" =>
          /\ fenceCompleted >= g_fenceValue
          /\ pollSaw >= g_fenceValue => (~waited /\ regFor = -1)
          /\ pollSaw < g_fenceValue => (waited /\ regFor = g_fenceValue)
    /\ pc = "WaitForSingleObject" =>
          /\ pollSaw < g_fenceValue
          /\ regFor = g_fenceValue
          /\ fenceCompleted < g_fenceValue => ~eventSignaled

FenceWaitCorrect ==
    /\ []FenceWaitSafe
    /\ (pc = "WaitForSingleObject" /\ fenceCompleted >= g_fenceValue)
          ~> (pc # "WaitForSingleObject")

\* The second frame found the fence behind, registered the event for 2,
\* blocked, and was woken with the fence at 2.
FenceWaitCorrectWitness ==
    /\ pc = "IncFenceValue"
    /\ g_fenceValue = 2
    /\ pollSaw < 2
    /\ regFor = 2
    /\ waited
    /\ fenceCompleted = 2

\* C7: the operations of a frame occur in the order of FrameProtocol, each
\* exactly once in a frame that returns; the queued Signal is behind the
\* frame's submission; the counter and the frame index advance after the
\* wait has finished.
IsPrefix(s, t) == Len(s) <= Len(t) /\ SubSeq(t, 1, Len(s)) = s

FrameOrder ==
    /\ IsPrefix(frameOps, FrameProtocol)
    /\ (OutsideRender /\ framesRendered >= 1) => frameOps = FrameProtocol
    /\ \A i, j \in 1..Len(gpuQueue) :
          (gpuQueue[i].type = "signal" /\ i < j) => gpuQueue[j].type # "exec"
    /\ pc = "Signal" => lastSignaled < g_fenceValue
    /\ pc \in {"IncFenceValue", "UpdateFrameIndex"} =>
          /\ lastSignaled = g_fenceValue - (IF pc = "IncFenceValue" THEN 0 ELSE 1)
          /\ fenceCompleted >= lastSignaled

\* A second frame has returned with all ten operations done.
FrameOrderWitness ==
    /\ pc = "PeekMessage"
    /\ framesRendered = 2
    /\ frameOps = FrameProtocol
    /\ Len(recorded) > 0

\* C8 as stated: every CommandList::Close, the one in InitD3D12 included, is
\* preceded by exactly one Reset not yet matched by a Close.
EveryCloseHasOneReset ==
    pc \in {"InitClose", "Close"} => unmatchedResets = 1

\* C8 amended: every Close in Render is preceded by exactly one unmatched
\* Reset; the Close in InitD3D12 is preceded by none, the list being open
\* since CreateCommandList.
RenderCloseHasOneReset ==
    /\ pc = "Close" => (unmatchedResets = 1 /\ listState = "open")
    /\ pc = "InitClose" => (unmatchedResets = 0 /\ listState = "open")

RenderCloseHasOneResetWitness ==
    /\ pc = "Close"
    /\ renderCalls = 2
    /\ unmatchedResets = 1

\* C9: when WM_DESTROY is handled after k frames, Render is not called
\* again, the loop terminates with exactly k frames rendered, and the fence
\* event is closed exactly once.
QuitSafe ==
    /\ destroyAt >= 0 => (framesRendered = destroyAt /\ renderCalls = destroyAt)
    /\ closeCount <= 1
    /\ pc = "exited" =>
          /\ destroyAt >= 0
          /\ closeCount = 1
          /\ g_fenceEvent = "closed"

QuitPropagation ==
    /\ []QuitSafe
    /\ [][destroyAt >= 0 => renderCalls' = renderCalls]_vars
    /\ (destroyAt >= 0) ~> (pc = "exited")

\* The window was destroyed after two frames and the process has exited.
QuitPropagationWitness ==
    /\ pc = "exited"
    /\ destroyAt = 2
    /\ framesRendered = 2
    /\ closeCount = 1

\* C10: on every exit path taken after the fence event was created the
\* handle is closed before the process ends.
FenceEventReleasedOnExit ==
    (pc \in {"exited", "terminated"} /\ g_fenceEvent # "null")
        => g_fenceEvent = "closed"

\* C11: every status-returning call of initialization and of Render is
\* checked: once any of them has failed, an error has been raised and no
\* later step of the frame and no later frame runs.
EveryFailureRaises ==
    failedCalls # {} => pc = "terminated"

\* The CPU is inside InitD3D12.
InsideInit ==
    pc \in {"CreateDXGIFactory1", "D3D12CreateDevice", "CreateCommandQueue",
            "CreateSwapChainForHwnd", "GetCurrentBackBufferIndex",
            "CreateDescriptorHeap", "GetBuffer", "CreateCommandAllocator",
            "CreateCommandList", "InitClose", "CreateFence", "CreateEvent",
            "CreateRootSignature", "CompileVS", "CompilePS",
            "CreateGraphicsPipelineState", "CreateCommittedResource", "Map"}

\* C12: when window creation returns null, startup fails before any GPU
\* initialization: InitD3D12 is never entered with a null window handle,
\* nothing is created and no frame is rendered.
NullWindowStopsStartup ==
    hwnd = "null" =>
        /\ ~InsideInit
        /\ created = {}
        /\ renderCalls = 0

\* Resource state of back buffer `slot` after the first n commands of cmds.
\* The swap chain hands out its buffers in the PRESENT state and only a
\* recorded transition barrier changes the state.
RECURSIVE BufferStateAfter(_, _, _)
BufferStateAfter(cmds, n, slot) ==
    IF n = 0 THEN "PRESENT"
    ELSE IF cmds[n].slot = slot /\ cmds[n].op = "BarrierPresentToRenderTarget"
         THEN "RENDER_TARGET"
    ELSE IF cmds[n].slot = slot /\ cmds[n].op = "BarrierRenderTargetToPresent"
         THEN "PRESENT"
    ELSE BufferStateAfter(cmds, n - 1, slot)

\* C13: in every frame the targeted back buffer is in RENDER_TARGET when the
\* clear and the draw execute and in PRESENT when Present is called: the
\* submitted list holds a PRESENT-to-RENDER_TARGET barrier before the clear
\* and a RENDER_TARGET-to-PRESENT barrier after the draw.
BackBufferStateTransitions ==
    /\ pc = "ExecuteCommandLists" =>
          \A i \in 1..Len(recorded) :
             recorded[i].op \in {"ClearRenderTargetView", "DrawInstanced"} =>
                BufferStateAfter(recorded, i - 1, g_frameIndex) = "RENDER_TARGET"
    /\ pc = "Present" =>
          BufferStateAfter(recorded, Len(recorded), g_frameIndex) = "PRESENT"

\* C14: the RTV handle bound and cleared in a frame is heap slot
\* g_frameIndex, which is 0 or 1; slot i describes RenderTarget[i]; so every
\* frame clears and draws into the swap chain's current back buffer.
RtvSlotIsCurrentBackBuffer ==
    /\ \A i \in 0..(BufferCount - 1) : rtv[i] \in {-1, i}
    /\ "renderTargets" \in created =>
          \A i \in 0..(BufferCount - 1) : rtv[i] = i
    /\ pc \in {"Close", "ExecuteCommandLists", "Present"} =>
          /\ \E k \in 1..Len(recorded) :
                recorded[k].op = "ClearRenderTargetView"
          /\ \A k \in 1..Len(recorded) :
                recorded[k].op \in {"OMSetRenderTargets", "ClearRenderTargetView"}
                   => /\ recorded[k].slot = g_frameIndex
                      /\ recorded[k].slot \in 0..(BufferCount - 1)
                      /\ rtv[recorded[k].slot] = swapIndex

\* The second frame has recorded a clear of slot 1 while buffer 1 is the
\* current back buffer.
RtvSlotIsCurrentBackBufferWitness ==
    /\ pc = "Close"
    /\ renderCalls = 2
    /\ g_frameIndex = 1
    /\ swapIndex = 1
    /\ rtv[1] = 1
    /\ \E k \in 1..Len(recorded) : recorded[k] = Cmd("ClearRenderTargetView", 1)

\* A shader compilation has failed.
ShaderCompileFailed == diag.shader # "none"

\* C15 as stated: when a shader fails to compile, initialization ends with
\* an error after the diagnostic was emitted, no PSO and no vertex buffer
\* exist, no frame is rendered, and the window was not shown.
ShaderFailureStopsStartup ==
    ShaderCompileFailed =>
        /\ pc = "terminated"
        /\ diag.emitted
        /\ "pso" \notin created
        /\ "vertexBuffer" \notin created
        /\ renderCalls = 0
        /\ shown = 0

\* C15 amended: the diagnostic is emitted exactly when the compiler returned
\* one, and the window has been shown (once, before InitD3D12) by the time
\* the compilation fails.
ShaderFailureStopsInit ==
    ShaderCompileFailed =>
        /\ pc = "terminated"
        /\ diag.emitted = diag.errors
        /\ "pso" \notin created
        /\ "vertexBuffer" \notin created
        /\ renderCalls = 0
        /\ shown = 1

\* The pixel shader failed with a diagnostic after the vertex shader compiled.
ShaderFailureStopsInitWitness ==
    /\ diag.shader = "CompilePS"
    /\ diag.errors
    /\ diag.emitted
    /\ "vsBlob" \in created
    /\ pc = "terminated"

\* The CPU is inside Render.
InRender ==
    pc \in {"AllocatorReset", "ListReset", "Record", "Close",
            "ExecuteCommandLists", "Present", "Signal", "GetCompletedValue",
            "SetEventOnCompletion", "WaitForSingleObject", "IncFenceValue",
            "UpdateFrameIndex"}

\* C16: the fence wait has no timeout.  While the CPU is in the wait and
\* the fence is below the signaled value, the CPU takes no step at all (no
\* later step of the frame, no message or quit handling, no cleanup); and
\* when the GPU eventually executes what was submitted, every call of
\* Render is eventually left (by its return, or by the throw of a failed
\* call).
BlockedUntilFence ==
    (pc = "WaitForSingleObject" /\ fenceCompleted < g_fenceValue) =>
        /\ pc' = pc
        /\ UNCHANGED <<g_fenceValue, g_frameIndex, g_fenceEvent, framesRendered,
                       renderCalls, msg, quitFlag, destroyAt, closeCount,
                       frameOps>>

WaitHasNoTimeout ==
    /\ [][BlockedUntilFence]_vars
    /\ InRender ~> ~InRender

\* The CPU is blocked on a fence the GPU has not reached while a close
\* request sits in the message queue.
WaitHasNoTimeoutWitness ==
    /\ pc = "WaitForSingleObject"
    /\ fenceCompleted < g_fenceValue
    /\ ~eventSignaled
    /\ destroySent
    /\ msgQueue # <<>>

\* Exit status of the process: `return 0` after cleanup, the abnormal
\* termination of an uncaught exception otherwise.
ExitCode ==
    IF pc = "exited" THEN "zero"
    ELSE IF pc = "terminated" THEN "nonzero"
    ELSE "running"

\* Calls whose failure the code turns into an exception.
CheckedFailures == failedCalls \ {"InitClose"}

\* C17 as stated: the exit code is 0 after the quit message and non-zero
\* only after a failed initialization step; a failure inside Render does
\* not give a non-zero exit.
NonZeroExitOnlyFromInit ==
    /\ pc = "exited" => ExitCode = "zero"
    /\ ExitCode = "nonzero" => renderCalls = 0

\* C17 amended: the exit code is 0 exactly when the program ends through
\* the quit message, and non-zero exactly when a checked call failed, in
\* initialization or inside Render.
ExitCodeReflectsFailure ==
    /\ ExitCode = "zero" => (msg = "WM_QUIT" /\ CheckedFailures = {})
    /\ ExitCode = "nonzero" => CheckedFailures # {}
    /\ CheckedFailures # {} => ExitCode = "nonzero"
    /\ (ExitCode = "nonzero" /\ renderCalls > 0) =>
          CheckedFailures \subseteq
             {"AllocatorReset", "ListReset", "Close", "Present", "Signal",
              "SetEventOnCompletion"}

\* The process ended abnormally because Present failed in the second frame.
ExitCodeReflectsFailureWitness ==
    /\ ExitCode = "nonzero"
    /\ renderCalls = 2
    /\ "Present" \in failedCalls

\* InitD3D12 has returned: every object it creates exists.
InitComplete ==
    /\ ~InsideInit
    /\ hwnd = "valid"
    /\ {"factory", "device", "queue", "swapChain", "rtvHeap", "renderTargets",
        "allocator", "list", "fence"} \subseteq created
    /\ \A i \in 0..(BufferCount - 1) : rtv[i] = i
    /\ listState # "none"
    /\ g_fenceValue >= 1
    /\ g_fenceEvent = "open"
    /\ variant = "main" =>
          {"rootSig", "pso", "vertexBuffer", "vbView"} \subseteq created

RenderCalledOnlyWhenDrained ==
    renderCalls' # renderCalls =>
       /\ pc = "PeekMessage" /\ pc' = "AllocatorReset"
       /\ msgQueue = <<>> /\ msgQueue' = <<>>
       /\ ~quitFlag /\ msg # "WM_QUIT"
       /\ InitComplete
       /\ renderCalls = framesRendered
       /\ renderCalls' = renderCalls + 1

\* C18: Render is entered only from the message pump at a moment when the
\* queue is empty and no quit is pending, once per pass of the outer loop
\* (the previous Render has returned), and only after InitD3D12 returned.
RenderOncePerDrainedLoop == [][RenderCalledOnlyWhenDrained]_vars

\* The second Render starts after a posted message was dispatched in between.
RenderOncePerDrainedLoopWitness ==
    /\ pc = "AllocatorReset"
    /\ renderCalls = 2
    /\ msg = "WM_PAINT"
    /\ msgQueue = <<>>

\* C19: the command list is closed whenever Render starts and whenever
\* CommandList::Reset is called, open while commands are recorded, and
\* closed again when it is handed to ExecuteCommandLists.
CommandListAlternates ==
    /\ pc \in {"AllocatorReset", "ListReset"} => listState = "closed"
    /\ pc = "Record" => listState = "open"
    /\ pc = "ExecuteCommandLists" => listState = "closed"

\* C20: outside the fence wait the auto-reset event is non-signaled and no
\* completion registration is outstanding; inside the wait the only
\* registration, pending or already fired, is the one made in this frame
\* for the current fence value, and it fires only once that value is
\* reached.
NoStaleEventSignal ==
    /\ pc # "WaitForSingleObject" => (~eventSignaled /\ fenceRegs = {})
    /\ pc = "WaitForSingleObject" =>
          /\ regFor = g_fenceValue
          /\ \/ fenceRegs = {g_fenceValue} /\ ~eventSignaled
             \/ /\ fenceRegs = {}
                /\ eventSignaled
                /\ fenceCompleted >= g_fenceValue

\* The second frame's wait has been released by that frame's registration.
NoStaleEventSignalWitness ==
    /\ pc = "WaitForSingleObject"
    /\ eventSignaled
    /\ fenceRegs = {}
    /\ regFor = g_fenceValue
    /\ renderCalls = 2

\* The statements of Render in program order; both programs have the same
\* ones, and the poll, the registration and the wait form the step "Wait".
RenderSteps ==
    <<"AllocatorReset", "ListReset", "Record", "Close", "ExecuteCommandLists",
      "Present", "Signal", "GetCompletedValue", "IncFenceValue",
      "UpdateFrameIndex">>

\* Number of protocol steps already done when Render stands at p.
StepsDone(p) ==
    LET q == IF p \in {"SetEventOnCompletion", "WaitForSingleObject"}
             THEN "GetCompletedValue" ELSE p
    IN  (CHOOSE i \in 1..Len(RenderSteps) : RenderSteps[i] = q) - 1

\* C21: in both programs the protocol events of a frame, the value v that
\* is signaled and waited for, and g_fenceValue and g_frameIndex during and
\* after every frame are the same function of the number of frames and of
\* the position in Render, none of which depends on the program; the two
\* programs differ only in the commands recorded between the list Reset
\* and Close.
SameSyncProtocol ==
    /\ InRender =>
          /\ frameOps = SubSeq(FrameProtocol, 1, StepsDone(pc))
          /\ g_fenceValue =
                renderCalls + (IF pc = "UpdateFrameIndex" THEN 1 ELSE 0)
          /\ g_frameIndex = (renderCalls - 1) % BufferCount
          /\ lastSignaled =
                IF StepsDone(pc) >= StepsDone("GetCompletedValue")
                THEN renderCalls ELSE renderCalls - 1
          /\ pc = "WaitForSingleObject" => regFor = renderCalls
          /\ StepsDone(pc) >= StepsDone("Close") =>
                recorded = FrameCommands(variant, g_frameIndex)
    /\ (OutsideRender /\ InitComplete) =>
          /\ renderCalls = framesRendered
          /\ g_fenceValue = framesRendered + 1
          /\ g_frameIndex = framesRendered % BufferCount
          /\ lastSignaled = framesRendered
          /\ framesRendered >= 1 =>
                recorded = FrameCommands(variant,
                            (g_frameIndex + BufferCount - 1) % BufferCount)
    /\ \A i \in 0..(BufferCount - 1) :
          /\ FrameCommands("main", i) # FrameCommands("dx12window", i)
          /\ \A v \in Variants : \E k \in 1..Len(FrameCommands(v, i)) :
                FrameCommands(v, i)[k] = Cmd("ClearRenderTargetView", i)

\* The clear-only program has returned from its second frame.
SameSyncProtocolWitness ==
    /\ variant = "dx12window"
    /\ pc = "PeekMessage"
    /\ framesRendered = 2
    /\ g_fenceValue = framesRendered + 1
    /\ g_frameIndex = 0
    /\ waited
    /\ recorded = FrameCommands("dx12window", 1)

====
